---- MODULE Spec2Model ----
(***************************************************************************)
(* A model of xtaskops: the filesystem operations of ops.rs and the tasks  *)
(* of tasks.rs (coverage, CI, powerset).  A task is a sequence of steps;   *)
(* every external process it spawns is one step that blocks the task until *)
(* the process exits.  The filesystem is a finite tree of paths.           *)
(***************************************************************************)
EXTENDS Integers, Sequences, FiniteSets, TLC

VARIABLES
    fs,             \* the filesystem: path -> "absent" | "file" | "dir"
    cwd,            \* the current working directory of the process
    task,           \* the function being executed, "idle" between calls
    pc,             \* the position inside the running function
    fmt,            \* coverage(fmt): the requested output format
    builder,        \* the CIBuilder / PowersetBuilder the run was called on
    path_arg,       \* the path argument of a filesystem operation
    project_root,   \* coverage: local project_root
    workspace_root, \* coverage: local workspace_root
    calls,          \* the external processes spawned by the running function
    steps,          \* the steps the running function has executed, in order
    result,         \* "none" while running, "Ok" or the error it returned
    pre_fs,         \* the filesystem as it was when the function was called
    pattern,        \* clean_files(pattern): the glob pattern
    line_rate,      \* cobertura_total_coverage: what xmllint printed
    stdout          \* the lines the running function has printed

vars == <<fs, cwd, task, pc, fmt, builder, path_arg, project_root,
          workspace_root, calls, steps, result, pre_fs, pattern, line_rate, stdout>>

-----------------------------------------------------------------------------
(* Paths and the filesystem *)

Root == <<>>
WS == <<"ws">>
PKG == <<"ws", "pkg">>
NoPath == <<"?">>

\* The directories the process may be started in.
WorkDirs == {WS, PKG}

join(p, name) == Append(p, name)

ManifestName == "Cargo.toml"
ProfrawName == "cargo-test-1-1.profraw"
ReportName == "index.html"

\* The paths of the model: two nested package directories, their manifests,
\* their coverage directories with a raw profile and a report inside, and a
\* raw profile left directly in the inner package.
Paths ==
    {Root, WS, PKG}
    \cup {join(d, ManifestName) : d \in WorkDirs}
    \cup {join(d, "coverage") : d \in WorkDirs}
    \cup {join(join(d, "coverage"), n) : d \in WorkDirs, n \in {ProfrawName, ReportName}}
    \cup {join(PKG, "stray.profraw")}

Parent(p) == SubSeq(p, 1, Len(p) - 1)
FileName(p) == p[Len(p)]

\* a is p itself or one of its ancestors (Path::ancestors, Path::starts_with)
IsPrefix(a, p) == Len(a) <= Len(p) /\ SubSeq(p, 1, Len(a)) = a

Ancestors(p) == {a \in Paths : IsPrefix(a, p)}

Children(p) == {q \in Paths : Len(q) = Len(p) + 1 /\ IsPrefix(p, q)}

WellFormed(f) == \A p \in Paths \ {Root} : f[p] # "absent" => f[Parent(p)] = "dir"

\* std::path::Path::exists, Path::is_dir
exists(f, p) == f[p] # "absent"
is_dir(f, p) == f[p] = "dir"

\* the entries of directory p (std::fs::read_dir)
read_dir(f, p) == {q \in Children(p) : f[q] # "absent"}

IsEmptyDir(f, p) == f[p] = "dir" /\ read_dir(f, p) = {}

Res(ok, err, f) == [ok |-> ok, err |-> err, fs |-> f]

\* std::fs::create_dir_all: creates p and every missing ancestor; fails when
\* p or an ancestor is a regular file, or on an I/O error (io_ok = FALSE).
create_dir_all(f, p, io_ok) ==
    IF f[p] = "dir" THEN Res(TRUE, "none", f)
    ELSE IF f[p] = "file" THEN Res(FALSE, "AlreadyExists", f)
    ELSE IF \E a \in Ancestors(p) : f[a] = "file" THEN Res(FALSE, "NotADirectory", f)
    ELSE IF ~io_ok THEN Res(FALSE, "Io", f)
    ELSE Res(TRUE, "none", [q \in Paths |-> IF IsPrefix(q, p) THEN "dir" ELSE f[q]])

\* std::fs::remove_dir_all: removes p and everything below it.
remove_dir_all(f, p, io_ok) ==
    IF ~io_ok THEN Res(FALSE, "Io", f)
    ELSE Res(TRUE, "none", [q \in Paths |-> IF IsPrefix(p, q) THEN "absent" ELSE f[q]])

\* get_clean_directory as it would be if it only ever created the directory
get_clean_directory_create_only(f, p, io_ok) ==
    IF exists(f, p) /\ ~is_dir(f, p) THEN Res(FALSE, "NotADirectory", f)
    ELSE create_dir_all(f, p, io_ok)

\* get_clean_directory as it would be without its is_dir test
get_clean_directory_unchecked(f, p, io_ok) ==
    IF ~exists(f, p) THEN create_dir_all(f, p, io_ok)
    ELSE remove_dir_all(f, p, io_ok)

get_clean_directory(f, p, io_ok) ==
    IF ~exists(f, p) THEN create_dir_all(f, p, io_ok)
    ELSE IF is_dir(f, p) THEN remove_dir_all(f, p, io_ok)
    ELSE Res(FALSE, "NotADirectory", f)


-----------------------------------------------------------------------------
(* ops.rs: workspace discovery and glob deletion *)

\* read_dir(p).all(|e| e.file_name() != "Cargo.toml") negated
has_cargo(f, p) == \E e \in read_dir(f, p) : FileName(e) = ManifestName

\* The loop of nearest_cargo_dir over path.ancestors(), nearest first.
RECURSIVE nearest_from(_, _)
nearest_from(f, p) ==
    IF has_cargo(f, p) THEN [ok |-> TRUE, err |-> "none", dir |-> p]
    ELSE IF p = Root THEN [ok |-> FALSE, err |-> "NotFound", dir |-> NoPath]
    ELSE nearest_from(f, Parent(p))

\* nearest_cargo_dir as it would be if the walk started at the parent
nearest_cargo_dir_skip_start(f, dir) == nearest_from(f, Parent(dir))

nearest_cargo_dir(f, dir) == nearest_from(f, dir)

\* Whether a file name matches the glob component *<suffix>
EndsWith(s, suffix) ==
    Len(s) >= Len(suffix) /\ SubSeq(s, Len(s) - Len(suffix) + 1, Len(s)) = suffix

MatchesProfraw(name) == EndsWith(name, ".profraw")

\* The patterns of the model have the form **/*<suffix>; glob::Pattern::new
\* rejects one with an unclosed character class.
HasChar(str, c) == \E i \in 1..Len(str) : SubSeq(str, i, i) = c

pattern_valid(pat) == ~HasChar(pat, "[")

PatternSuffix(pat) == SubSeq(pat, 5, Len(pat))

\* the matches as they would be if ** did not descend into directories
glob_matches_top(f, dir, pat) ==
    {q \in Children(dir) : f[q] # "absent" /\ EndsWith(FileName(q), PatternSuffix(pat))}

\* The existing paths below directory dir that a pattern **/*<suffix>
\* matches.
glob_matches(f, dir, pat) ==
    {q \in Paths : q # dir /\ IsPrefix(dir, q) /\ f[q] # "absent"
                   /\ EndsWith(FileName(q), PatternSuffix(pat))}

\* glob("**/*.profraw"): the existing paths below the working directory whose
\* file name matches.
glob_profraw(f, dir) == glob_matches(f, dir, "**/*.profraw")

\* The alphabetical order in which glob yields paths, as a rank of the names
\* of the model.
NameRank(n) ==
    CASE n = "Cargo.toml" -> 1
      [] n = "cargo-test-1-1.profraw" -> 2
      [] n = "coverage" -> 3
      [] n = "index.html" -> 4
      [] n = "pkg" -> 5
      [] n = "stray.profraw" -> 6
      [] n = "ws" -> 7
      [] OTHER -> 0

RECURSIVE PathLess(_, _)
PathLess(a, b) ==
    IF a = <<>> THEN b # <<>>
    ELSE IF b = <<>> THEN FALSE
    ELSE IF Head(a) = Head(b) THEN PathLess(Tail(a), Tail(b))
    ELSE NameRank(Head(a)) < NameRank(Head(b))

RECURSIVE SortedPaths(_)
SortedPaths(S) ==
    IF S = {} THEN <<>>
    ELSE LET m == CHOOSE x \in S : \A y \in S \ {x} : PathLess(x, y)
         IN <<m>> \o SortedPaths(S \ {m})

\* fs_extra::file::remove: removes the file if it exists; removing a directory
\* is an error.
remove_file(f, p, io_ok) ==
    IF ~exists(f, p) THEN Res(TRUE, "none", f)
    ELSE IF f[p] = "dir" \/ ~io_ok THEN Res(FALSE, "Io", f)
    ELSE Res(TRUE, "none", [f EXCEPT ![p] = "absent"])

\* the loop as it would be if it went on after an error and reported it at
\* the end
RECURSIVE for_each_remove_all(_, _, _, _)
for_each_remove_all(f, files, i, fail_at) ==
    IF i > Len(files) THEN Res(TRUE, "none", f)
    ELSE LET r == remove_file(f, files[i], i # fail_at)
             rest == for_each_remove_all(r.fs, files, i + 1, fail_at)
         IN IF r.ok THEN rest ELSE Res(FALSE, r.err, rest.fs)

\* files.iter().try_for_each(remove_file): stops at the first error.  The
\* deletion of the fail_at-th match fails with an I/O error (0: none does).
RECURSIVE try_for_each_remove(_, _, _, _)
try_for_each_remove(f, files, i, fail_at) ==
    IF i > Len(files) THEN Res(TRUE, "none", f)
    ELSE LET r == remove_file(f, files[i], i # fail_at)
         IN IF r.ok THEN try_for_each_remove(r.fs, files, i + 1, fail_at) ELSE r

\* glob(pattern)?.collect(): the matches in the order glob yields them; an
\* invalid pattern is a PatternError, a directory that cannot be read while
\* listing (list_ok = FALSE) a GlobError.
glob(f, dir, pat, list_ok) ==
    IF ~pattern_valid(pat) THEN [ok |-> FALSE, err |-> "PatternError", files |-> <<>>]
    ELSE IF ~list_ok THEN [ok |-> FALSE, err |-> "GlobError", files |-> <<>>]
    ELSE [ok |-> TRUE, err |-> "none", files |-> SortedPaths(glob_matches(f, dir, pat))]

\* clean_files as it would be with a pattern that matches nothing
clean_files_none(f, dir, pat, fail_at, list_ok) == Res(TRUE, "none", f)

clean_files(f, dir, pat, fail_at, list_ok) ==
    LET files == glob(f, dir, pat, list_ok) IN
        IF ~files.ok THEN Res(FALSE, files.err, f)
        ELSE try_for_each_remove(f, files.files, 1, fail_at)

-----------------------------------------------------------------------------
(* External processes *)

RECURSIVE PathStr(_)
PathStr(p) == IF p = <<>> THEN "" ELSE PathStr(Parent(p)) \o "/" \o FileName(p)

\* duct::cmd(program, args) with .env(name, value) overrides
Cmd(prog, args, env) == [prog |-> prog, args |-> args, env |-> env, exit |-> "running"]

Exited(c, code) == [c EXCEPT !.exit = code]

ExitCodes == {"zero", "nonzero"}

\* run as it would be if the exit status were not checked
run_ok_unchecked(code) == TRUE

\* Expression::run: a non-zero exit status is an error, which the ? operator
\* of the caller returns at once.
run_ok(code) == code = "zero"

SetLast(s, c) == [s EXCEPT ![Len(s)] = c]

Last(s) == s[Len(s)]

-----------------------------------------------------------------------------
(* Initial states *)

Kinds == {"absent", "file", "dir"}

\* A filesystem of the model: the package directories exist; a manifest and a
\* raw profile is a regular file or absent; a coverage path is absent, a
\* regular file, or a directory holding any of its two entries.
MkFS(manifests, cov, kids, stray) ==
    [p \in Paths |->
        IF p \in {Root, WS, PKG} THEN "dir"
        ELSE IF \E d \in WorkDirs : p = join(d, ManifestName)
            THEN (IF Parent(p) \in manifests THEN "file" ELSE "absent")
        ELSE IF \E d \in WorkDirs : p = join(d, "coverage") THEN cov[Parent(p)]
        ELSE IF p = join(PKG, "stray.profraw") THEN (IF stray THEN "file" ELSE "absent")
        ELSE IF FileName(p) \in kids[Parent(Parent(p))] THEN "file" ELSE "absent"]

InitFS ==
    {MkFS(m, c, k, s) :
        m \in SUBSET WorkDirs,
        c \in [WorkDirs -> Kinds],
        k \in [WorkDirs -> SUBSET {ProfrawName, ReportName}],
        s \in BOOLEAN}

NoBuilder == [kind |-> "none"]

Idle ==
    /\ task = "idle"
    /\ pc = "idle"
    /\ fmt = ""
    /\ builder = NoBuilder
    /\ path_arg = NoPath
    /\ project_root = NoPath
    /\ workspace_root = NoPath
    /\ calls = <<>>
    /\ steps = <<>>
    /\ result = "none"
    /\ pattern = ""
    /\ line_rate = ""
    /\ stdout = <<>>

Init ==
    /\ fs \in {f \in InitFS : WellFormed(f)}
    /\ cwd \in WorkDirs
    /\ pre_fs = fs
    /\ Idle

\* The function has returned to its caller; the next call starts afresh.
Return ==
    /\ pc = "done"
    /\ task' = "idle"
    /\ pc' = "idle"
    /\ fmt' = ""
    /\ builder' = NoBuilder
    /\ path_arg' = NoPath
    /\ project_root' = NoPath
    /\ workspace_root' = NoPath
    /\ calls' = <<>>
    /\ steps' = <<>>
    /\ result' = "none"
    /\ pre_fs' = fs
    /\ pattern' = ""
    /\ line_rate' = ""
    /\ stdout' = <<>>
    /\ UNCHANGED <<fs, cwd>>

-----------------------------------------------------------------------------
(* tasks.rs: coverage *)

Formats == {"profraw", "html", "lcov", "cobertura", "covdir", "xml", "HTML"}

\* the arms of the match as they would be with one more report format
ReportFormats_with_xml == {"html", "lcov", "cobertura", "covdir", "xml"}

ReportFormats == {"html", "lcov", "cobertura", "covdir"}

coverage_dir == join(project_root, "coverage")

MetadataCmd == Cmd("cargo", <<"metadata", "--format-version", "1">>, <<>>)

TestCmd(covdir, binary_folder) ==
    Cmd("cargo", <<"test", "--all-features">>,
        << <<"CARGO_TARGET_DIR", PathStr(binary_folder)>>,
           <<"RUSTFLAGS", "-Cinstrument-coverage">>,
           <<"LLVM_PROFILE_FILE", PathStr(join(covdir, "cargo-test-%p-%m.profraw"))>> >>)

GrcovCmd(covdir, binary_folder, source_dir, f, output_folder) ==
    Cmd("grcov",
        <<PathStr(covdir), "--binary-path", PathStr(binary_folder),
          "--source-dir", PathStr(source_dir), "--output-types", f,
          "--branch", "--ignore-not-existing", "--ignore", "../*",
          "--ignore", "/*", "--ignore", "xtask/*", "-o", PathStr(output_folder)>>,
        <<>>)

\* What an external process leaves in directory d: the file `name`, the
\* directory created on the way if it was missing.
Writes(f, d, name, wrote) ==
    IF wrote /\ f[d] # "file" /\ (\A a \in Ancestors(d) : f[a] # "file")
    THEN [q \in Paths |-> IF IsPrefix(q, d) THEN "dir"
                          ELSE IF q = join(d, name) THEN "file" ELSE f[q]]
    ELSE f

Fail(err) ==
    /\ result' = err
    /\ pc' = "done"

\* coverage(fmt) up to the metadata query of get_workspace_root
coverage_call(f) ==
    /\ task = "idle"
    /\ task' = "coverage"
    /\ fmt' = f
    /\ pre_fs' = fs
    /\ LET r == nearest_cargo_dir(fs, cwd) IN
        IF ~r.ok
        THEN /\ Fail(r.err)
             /\ steps' = <<"nearest_cargo_dir">>
             /\ UNCHANGED <<project_root, calls>>
        ELSE /\ project_root' = r.dir
             /\ calls' = <<MetadataCmd>>
             /\ steps' = <<"nearest_cargo_dir", "get_workspace_root">>
             /\ pc' = "metadata"
             /\ result' = "none"
    /\ UNCHANGED <<fs, cwd, builder, path_arg, workspace_root, pattern, line_rate, stdout>>

\* What the metadata query can answer: the process fails, its output is not
\* JSON, the JSON has no workspace_root, or it names a workspace root.
MetadataOutcomes == {"failed", "not_json", "no_field", "root"}

\* The metadata query returns; get_workspace_root, get_clean_directory and
\* the start of the instrumented test run.
coverage_metadata_exit(out, root, io_ok) ==
    /\ task = "coverage"
    /\ pc = "metadata"
    /\ IF out # "root"
       THEN /\ calls' = SetLast(calls, Exited(Last(calls), IF out = "failed" THEN "nonzero" ELSE "zero"))
            /\ Fail(CASE ~run_ok(IF out = "failed" THEN "nonzero" ELSE "zero") -> "CommandFailed"
                      [] out = "not_json" -> "JsonError"
                      [] OTHER -> "Deserialization error")
            /\ UNCHANGED <<fs, workspace_root, steps>>
       ELSE LET r == get_clean_directory(fs, coverage_dir, io_ok)
                done == SetLast(calls, Exited(Last(calls), "zero"))
            IN /\ workspace_root' = root
               /\ fs' = r.fs
               /\ IF ~r.ok
                  THEN /\ Fail(r.err)
                       /\ calls' = done
                       /\ steps' = Append(steps, "get_clean_directory")
                  ELSE /\ calls' = Append(done, TestCmd(coverage_dir, join(root, "target")))
                       /\ steps' = steps \o <<"get_clean_directory", "cargo test">>
                       /\ pc' = "test"
                       /\ UNCHANGED result
    /\ UNCHANGED <<cwd, task, fmt, builder, path_arg, project_root, pre_fs, pattern, line_rate, stdout>>

\* the match on fmt as it would be with a catch-all arm that accepts
output_folder_any(f, covdir) == [ok |-> TRUE, dir |-> covdir]

\* The match on fmt of coverage
output_folder(f, covdir) ==
    IF f \in ReportFormats THEN [ok |-> TRUE, dir |-> covdir]
    ELSE [ok |-> FALSE, dir |-> NoPath]

\* the early return as it would be if it compared with another literal
returns_raw_never(f) == f = "raw"

\* if fmt == "profraw" { return Ok(()) }
returns_raw(f) == f = "profraw"

\* The instrumented test run returns; the format is looked at, the output
\* folder created and the report tool started.
coverage_test_exit(code, wrote, io_ok) ==
    /\ task = "coverage"
    /\ pc = "test"
    /\ LET f1 == Writes(fs, coverage_dir, ProfrawName, wrote)
           done == SetLast(calls, Exited(Last(calls), code))
           out == output_folder(fmt, coverage_dir)
           r == create_dir_all(f1, out.dir, io_ok)
       IN IF ~run_ok(code)
          THEN /\ Fail("CommandFailed")
               /\ fs' = f1
               /\ calls' = done
               /\ UNCHANGED <<steps, stdout>>
          ELSE IF returns_raw(fmt)
          THEN /\ Fail("Ok")
               /\ fs' = f1
               /\ calls' = done
               /\ stdout' = Append(stdout, "ok.")
               /\ UNCHANGED steps
          ELSE IF ~out.ok
          THEN /\ Fail("InvalidFormat")
               /\ fs' = f1
               /\ calls' = done
               /\ stdout' = stdout \o <<"ok.", "=== generating report ===">>
               /\ steps' = Append(steps, "output_folder")
          ELSE IF ~r.ok
          THEN /\ Fail(r.err)
               /\ fs' = r.fs
               /\ calls' = done
               /\ stdout' = stdout \o <<"ok.", "=== generating report ===">>
               /\ steps' = steps \o <<"output_folder", "create_dir_all">>
          ELSE /\ fs' = r.fs
               /\ stdout' = stdout \o <<"ok.", "=== generating report ===">>
               /\ calls' = Append(done, GrcovCmd(coverage_dir, join(workspace_root, "target"),
                                                 join(project_root, "src"), fmt, out.dir))
               /\ steps' = steps \o <<"output_folder", "create_dir_all", "grcov">>
               /\ pc' = "grcov"
               /\ UNCHANGED result
    /\ UNCHANGED <<cwd, task, fmt, builder, path_arg, project_root, workspace_root, pre_fs, pattern, line_rate>>

\* The report tool returns; the raw profiles are deleted.
coverage_grcov_exit(code, wrote, fail_at, list_ok) ==
    /\ task = "coverage"
    /\ pc = "grcov"
    /\ LET f1 == Writes(fs, coverage_dir, ReportName, wrote)
           r == clean_files(f1, cwd, "**/*.profraw", fail_at, list_ok)
       IN /\ calls' = SetLast(calls, Exited(Last(calls), code))
          /\ IF ~run_ok(code)
             THEN /\ Fail("CommandFailed")
                  /\ fs' = f1
                  /\ UNCHANGED <<steps, stdout>>
             ELSE /\ Fail(IF r.ok THEN "Ok" ELSE r.err)
                  /\ fs' = r.fs
                  /\ stdout' = stdout \o (IF r.ok THEN <<"ok.", "=== cleaning up ===", "ok.">>
                                           ELSE <<"ok.", "=== cleaning up ===">>)
                  /\ steps' = Append(steps, "clean_files")
    /\ UNCHANGED <<cwd, task, fmt, builder, path_arg, project_root, workspace_root, pre_fs, pattern, line_rate>>

\* The most matches a glob of the model can have.
MaxMatches == 3

NextCoverage ==
    \/ \E f \in Formats : coverage_call(f)
    \/ \E out \in MetadataOutcomes, io_ok \in BOOLEAN :
         \E root \in {d \in WorkDirs : IsPrefix(d, cwd)} : coverage_metadata_exit(out, root, io_ok)
    \/ \E code \in ExitCodes, wrote \in BOOLEAN, io_ok \in BOOLEAN :
         coverage_test_exit(code, wrote, io_ok)
    \/ \E code \in ExitCodes, wrote \in BOOLEAN, fail_at \in 0..MaxMatches, list_ok \in BOOLEAN :
         coverage_grcov_exit(code, wrote, fail_at, list_ok)

-----------------------------------------------------------------------------
(* tasks.rs: the CI and Powerset builders *)

\* A builder field: <<>> while unset, <<v>> once its setter was called.
Unset == <<>>
unwrap_or(opt, default) == IF opt = <<>> THEN default ELSE opt[1]

\* The pipelines run one process after the other; each ? returns the error
\* of the process that failed.
PipelineStart(plan) ==
    /\ calls' = <<plan[1]>>
    /\ steps' = <<1>>
    /\ pc' = "wait"
    /\ result' = "none"

PipelineExit(plan, code) ==
    /\ pc = "wait"
    /\ LET done == SetLast(calls, Exited(Last(calls), code)) IN
        IF ~run_ok(code)
        THEN /\ Fail("CommandFailed")
             /\ calls' = done
             /\ UNCHANGED steps
        ELSE IF Len(calls) < Len(plan)
        THEN /\ calls' = Append(done, plan[Len(calls) + 1])
             /\ steps' = Append(steps, Len(calls) + 1)
             /\ UNCHANGED <<pc, result>>
        ELSE /\ Fail("Ok")
             /\ calls' = done
             /\ UNCHANGED steps

CIBuilders ==
    [kind : {"ci"}, nightly : {Unset, <<TRUE>>, <<FALSE>>},
     clippy_max : {Unset, <<TRUE>>, <<FALSE>>}]

CIBuilder_default == [kind |-> "ci", nightly |-> Unset, clippy_max |-> Unset]

\* CIBuilder::build as it would be with nightly on by default
CI_build_nightly_on(b) ==
    [nightly |-> unwrap_or(b.nightly, TRUE), clippy_max |-> unwrap_or(b.clippy_max, TRUE)]

\* CIBuilder::build: the fields of CI with their #[builder(default)]
CI_build(b) ==
    [nightly |-> unwrap_or(b.nightly, FALSE), clippy_max |-> unwrap_or(b.clippy_max, TRUE)]

check_args(t) ==
    IF t.nightly THEN <<"+nightly", "fmt", "--all", "--", "--check">>
    ELSE <<"fmt", "--all", "--", "--check">>

\* clippy_args as it would be if the toolchain prefix were added to it too
clippy_args_toolchain(t) ==
    (IF t.nightly THEN <<"+nightly">> ELSE <<>>)
    \o <<"clippy", "--", "-D", "warnings">>
    \o (IF t.clippy_max
        THEN <<"-W", "clippy::pedantic", "-W", "clippy::nursery", "-W", "rust-2018-idioms">>
        ELSE <<>>)

clippy_args(t) ==
    <<"clippy", "--", "-D", "warnings">>
    \o (IF t.clippy_max
        THEN <<"-W", "clippy::pedantic", "-W", "clippy::nursery", "-W", "rust-2018-idioms">>
        ELSE <<>>)

\* CIBuilder::run as it would be with lint run before the format check
CIPlan_lint_first(t) ==
    <<Cmd("cargo", clippy_args(t), <<>>),
      Cmd("cargo", check_args(t), <<>>),
      Cmd("cargo", <<"test">>, <<>>),
      Cmd("cargo", <<"test", "--doc">>, <<>>)>>

\* The four invocations of CIBuilder::run, in the order it runs them
CIPlan(t) ==
    <<Cmd("cargo", check_args(t), <<>>),
      Cmd("cargo", clippy_args(t), <<>>),
      Cmd("cargo", <<"test">>, <<>>),
      Cmd("cargo", <<"test", "--doc">>, <<>>)>>

CIBuilder_run(b) ==
    /\ task = "idle"
    /\ task' = "ci"
    /\ builder' = b
    /\ pre_fs' = fs
    /\ PipelineStart(CIPlan(CI_build(b)))
    /\ UNCHANGED <<fs, cwd, fmt, path_arg, project_root, workspace_root, pattern, line_rate, stdout>>

ci == CIBuilder_run(CIBuilder_default)

CIBuilder_run_exit(code) ==
    /\ task = "ci"
    /\ PipelineExit(CIPlan(CI_build(builder)), code)
    /\ UNCHANGED <<fs, cwd, task, fmt, builder, path_arg, project_root, workspace_root, pre_fs,
                   pattern, line_rate, stdout>>

NextCI ==
    \/ \E b \in CIBuilders : CIBuilder_run(b)
    \/ ci
    \/ \E code \in ExitCodes : CIBuilder_run_exit(code)

\* The largest depth a Powerset is configured with in the model.
MaxDepth == 11

Depths == -1 .. MaxDepth

PowersetBuilders ==
    [kind : {"powerset"}, depth : {Unset} \cup {<<d>> : d \in Depths},
     exclude_no_default_features : {Unset, <<TRUE>>, <<FALSE>>}]

PowersetBuilder_default ==
    [kind |-> "powerset", depth |-> Unset, exclude_no_default_features |-> Unset]

\* PowersetBuilder::build: the fields of Powerset with their #[builder(default)]
Powerset_build(b) ==
    [depth |-> unwrap_or(b.depth, 2),
     exclude_no_default_features |-> unwrap_or(b.exclude_no_default_features, FALSE)]

Digit(d) ==
    CASE d = 0 -> "0" [] d = 1 -> "1" [] d = 2 -> "2" [] d = 3 -> "3" [] d = 4 -> "4"
      [] d = 5 -> "5" [] d = 6 -> "6" [] d = 7 -> "7" [] d = 8 -> "8" [] d = 9 -> "9"

RECURSIVE Digits(_)
Digits(n) == IF n < 10 THEN Digit(n) ELSE Digits(n \div 10) \o Digit(n % 10)

\* format!("{}", n) of an i32
format_i32(n) == IF n < 0 THEN "-" \o Digits(-n) ELSE Digits(n)

\* the shared arguments as they would be with the default depth written in
common_fixed_depth(t) ==
    <<"--workspace", "--exclude", "xtask", "--feature-powerset", "--depth", "2">>
    \o (IF t.exclude_no_default_features THEN <<"--exclude-no-default-features">> ELSE <<>>)

\* The arguments the three invocations share
common(t) ==
    <<"--workspace", "--exclude", "xtask", "--feature-powerset", "--depth", format_i32(t.depth)>>
    \o (IF t.exclude_no_default_features THEN <<"--exclude-no-default-features">> ELSE <<>>)

\* The three invocations of PowersetBuilder::run, in the order it runs them
PowersetPlan(t) ==
    <<Cmd("cargo", <<"hack", "clippy">> \o common(t) \o <<"--", "-D", "warnings">>, <<>>),
      Cmd("cargo", <<"hack">> \o common(t) \o <<"test">>, <<>>),
      Cmd("cargo", <<"hack", "test">> \o common(t) \o <<"--doc">>, <<>>)>>

PowersetBuilder_run(b) ==
    /\ task = "idle"
    /\ task' = "powerset"
    /\ builder' = b
    /\ pre_fs' = fs
    /\ PipelineStart(PowersetPlan(Powerset_build(b)))
    /\ UNCHANGED <<fs, cwd, fmt, path_arg, project_root, workspace_root, pattern, line_rate, stdout>>

powerset == PowersetBuilder_run(PowersetBuilder_default)

PowersetBuilder_run_exit(code) ==
    /\ task = "powerset"
    /\ PipelineExit(PowersetPlan(Powerset_build(builder)), code)
    /\ UNCHANGED <<fs, cwd, task, fmt, builder, path_arg, project_root, workspace_root, pre_fs,
                   pattern, line_rate, stdout>>

NextPowerset ==
    \/ \E b \in PowersetBuilders : PowersetBuilder_run(b)
    \/ powerset
    \/ \E code \in ExitCodes : PowersetBuilder_run_exit(code)

-----------------------------------------------------------------------------
(* tasks.rs: cobertura_total_coverage *)

CharAt(str, i) == SubSeq(str, i, i)

IsDigitChar(c) == c \in {"0", "1", "2", "3", "4", "5", "6", "7", "8", "9"}

DigitVal(c) ==
    CASE c = "0" -> 0 [] c = "1" -> 1 [] c = "2" -> 2 [] c = "3" -> 3 [] c = "4" -> 4
      [] c = "5" -> 5 [] c = "6" -> 6 [] c = "7" -> 7 [] c = "8" -> 8 [] c = "9" -> 9

\* The number the first n characters of a digit string denote.
RECURSIVE ParseDigits(_, _)
ParseDigits(str, n) ==
    IF n = 0 THEN 0 ELSE ParseDigits(str, n - 1) * 10 + DigitVal(CharAt(str, n))

\* What xmllint can print for string(//coverage/@line-rate): a rate with four
\* decimals (any hundredths, then two digits below, at or above the middle
\* between two hundredths), a shorter number, nothing when the attribute is
\* missing, or something that is not a number.
RateTails == {"00", "34", "49", "50", "51", "99"}

LineRates ==
    {"0." \o Digit(h \div 10) \o Digit(h % 10) \o t : h \in 0..99, t \in RateTails}
    \cup {"1", "0.5", "", "n/a"}

IsDigitStr(str) == \A i \in 1..Len(str) : IsDigitChar(CharAt(str, i))

DotAt(str) ==
    IF HasChar(str, ".") THEN CHOOSE i \in 1..Len(str) : CharAt(str, i) = "." ELSE 0

RECURSIVE Pow10(_)
Pow10(n) == IF n = 0 THEN 1 ELSE 10 * Pow10(n - 1)

\* str.parse::<f32>() of a decimal with at most four fractional digits. The
\* f32 is the float nearest to the decimal read; `value` is that decimal in
\* ten-thousandths.
f32_from_str(str) ==
    LET d == DotAt(str)
        int == IF d = 0 THEN str ELSE SubSeq(str, 1, d - 1)
        frac == IF d = 0 THEN "" ELSE SubSeq(str, d + 1, Len(str))
    IN IF Len(int) + Len(frac) = 0 \/ ~IsDigitStr(int) \/ ~IsDigitStr(frac) \/ Len(frac) > 4
       THEN [ok |-> FALSE, value |-> 0]
       ELSE [ok |-> TRUE,
             value |-> ParseDigits(int, Len(int)) * Pow10(4)
                       + ParseDigits(frac, Len(frac)) * Pow10(4 - Len(frac))]

RECURSIVE Pow2Mod25(_)
Pow2Mod25(n) == IF n = 0 THEN 1 ELSE (2 * Pow2Mod25(n - 1)) % 25

\* How the f32 nearest to the middle (2q+1)/200 between the hundredths q and
\* q+1 compares with that middle. With 2^-k <= (2q+1)/200 < 2^(1-k) the 24-bit
\* significand is (2q+1) * 2^(20+k) / 25 rounded to the nearest integer: the
\* remainder of the division tells to which side.
f32_middle(q) ==
    LET k == CHOOSE k \in 0..8 :
                /\ (2 * q + 1) * (2 ^ k) >= 200
                /\ \A j \in 0..(k - 1) : (2 * q + 1) * (2 ^ j) < 200
        rem == ((2 * q + 1) * Pow2Mod25(20 + k)) % 25
    IN IF rem = 0 THEN "equal" ELSE IF 2 * rem < 25 THEN "below" ELSE "above"

\* format!("{:.2}", x) of the f32 nearest to value/10000: the exact value of
\* the float is rounded to two decimals, a tie going to the even digit.
format_f32_2(value) ==
    LET q == value \div 100
        r == value % 100
        up == IF r # 50 THEN r > 50
              ELSE CASE f32_middle(q) = "above" -> TRUE
                     [] f32_middle(q) = "below" -> FALSE
                     [] OTHER -> q % 2 = 1
        h == IF up THEN q + 1 ELSE q
    IN format_i32(h \div 100) \o "." \o Digit((h \div 10) % 10) \o Digit(h % 10)

ReportFile == "coverage/cobertura.xml"

XmllintCmd(filename) ==
    Cmd("xmllint", <<"--xpath", "string(//coverage/@line-rate)", filename>>, <<>>)

cobertura_total_coverage_call ==
    /\ task = "idle"
    /\ task' = "cobertura_total_coverage"
    /\ pre_fs' = fs
    /\ calls' = <<XmllintCmd(ReportFile)>>
    /\ steps' = <<"xmllint">>
    /\ pc' = "xmllint"
    /\ result' = "none"
    /\ UNCHANGED <<fs, cwd, fmt, builder, path_arg, project_root, workspace_root,
                   pattern, line_rate, stdout>>

\* xmllint returns: .read()? .parse()? println!
cobertura_total_coverage_exit(code, out) ==
    /\ task = "cobertura_total_coverage"
    /\ pc = "xmllint"
    /\ calls' = SetLast(calls, Exited(Last(calls), code))
    /\ line_rate' = out
    /\ LET total_coverage == f32_from_str(out) IN
        IF ~run_ok(code)
        THEN /\ Fail("CommandFailed")
             /\ UNCHANGED stdout
        ELSE IF ~total_coverage.ok
        THEN /\ Fail("ParseFloatError")
             /\ UNCHANGED stdout
        ELSE /\ Fail("Ok")
             /\ stdout' = <<"Coverage: " \o format_f32_2(total_coverage.value) \o "%">>
    /\ UNCHANGED <<fs, cwd, task, fmt, builder, path_arg, project_root, workspace_root,
                   steps, pre_fs, pattern>>

NextCobertura ==
    \/ cobertura_total_coverage_call
    \/ \E code \in ExitCodes, out \in LineRates : cobertura_total_coverage_exit(code, out)

-----------------------------------------------------------------------------
(* ops.rs called directly *)

\* The paths an operation is called on: not the working directory or a
\* directory above it.
OpPaths == {p \in Paths : ~IsPrefix(p, cwd)}

get_clean_directory_call(p, io_ok) ==
    /\ task = "idle"
    /\ task' = "get_clean_directory"
    /\ path_arg' = p
    /\ pre_fs' = fs
    /\ LET r == get_clean_directory(fs, p, io_ok) IN
        /\ fs' = r.fs
        /\ result' = IF r.ok THEN "Ok" ELSE r.err
    /\ pc' = "done"
    /\ steps' = <<"get_clean_directory">>
    /\ UNCHANGED <<cwd, fmt, builder, project_root, workspace_root, calls, pattern, line_rate, stdout>>

\* The glob patterns clean_files is called with: raw profiles, reports, a
\* suffix no file has, and a pattern that is not valid.
Patterns == {"**/*.profraw", "**/*.html", "**/*.lcov", "**/[.profraw"}

clean_files_call(pat, fail_at, list_ok) ==
    /\ task = "idle"
    /\ task' = "clean_files"
    /\ pattern' = pat
    /\ pre_fs' = fs
    /\ LET r == clean_files(fs, cwd, pat, fail_at, list_ok) IN
        /\ fs' = r.fs
        /\ result' = IF r.ok THEN "Ok" ELSE r.err
    /\ pc' = "done"
    /\ steps' = <<"clean_files">>
    /\ UNCHANGED <<cwd, fmt, builder, path_arg, project_root, workspace_root, calls,
                   line_rate, stdout>>

nearest_cargo_dir_call ==
    /\ task = "idle"
    /\ task' = "nearest_cargo_dir"
    /\ pre_fs' = fs
    /\ LET r == nearest_cargo_dir(fs, cwd) IN
        /\ project_root' = r.dir
        /\ result' = IF r.ok THEN "Ok" ELSE r.err
    /\ pc' = "done"
    /\ steps' = <<"nearest_cargo_dir">>
    /\ UNCHANGED <<fs, cwd, fmt, builder, path_arg, workspace_root, calls, pattern, line_rate, stdout>>

NextOps ==
    \/ \E p \in OpPaths, io_ok \in BOOLEAN : get_clean_directory_call(p, io_ok)
    \/ \E pat \in Patterns, fail_at \in 0..MaxMatches, list_ok \in BOOLEAN :
         clean_files_call(pat, fail_at, list_ok)
    \/ nearest_cargo_dir_call

-----------------------------------------------------------------------------
(* Specifications *)

\* The builders never look at the filesystem: one filesystem is enough.
InitBuilders ==
    /\ fs = MkFS(WorkDirs, [d \in WorkDirs |-> "absent"], [d \in WorkDirs |-> {}], FALSE)
    /\ cwd \in WorkDirs
    /\ pre_fs = fs
    /\ Idle

Next ==
    \/ NextCoverage
    \/ NextCI
    \/ NextPowerset
    \/ NextOps
    \/ NextCobertura
    \/ Return

Spec == Init /\ [][Next]_vars

SpecCoverage == Init /\ [][NextCoverage \/ Return]_vars

SpecBuilders == InitBuilders /\ [][NextCI \/ NextPowerset \/ Return]_vars

SpecOps == Init /\ [][NextOps \/ Return]_vars

SpecCobertura == InitBuilders /\ [][NextCobertura \/ Return]_vars

-----------------------------------------------------------------------------
(* Properties of the coverage task *)

IsMetadata(c) == c.prog = "cargo" /\ c.args[1] = "metadata"
IsTest(c) == c.prog = "cargo" /\ c.args[1] = "test"
IsGrcov(c) == c.prog = "grcov"

Ran(name) == \E i \in 1..Len(steps) : steps[i] = name
Before(a, b) == \E i, j \in 1..Len(steps) : i < j /\ steps[i] = a /\ steps[j] = b

\* The formats the task documents as supported.
SupportedFormats == {"profraw", "html", "lcov", "cobertura", "covdir"}

\* The steps of coverage that precede the instrumented test run.
SetupSteps == {"nearest_cargo_dir", "get_workspace_root", "get_clean_directory"}

\* C1 as stated: a coverage run with an unsupported format has started no
\* external process when it returns its error.
C1_NoProcessBeforeFormatError ==
    (task = "coverage" /\ fmt \notin SupportedFormats /\ pc = "done") => calls = <<>>

\* C1 as amended: a coverage run with an unsupported format returns its
\* unsupported-format error only after the metadata query and the
\* instrumented test run have both been started and have exited zero; these
\* two are then the only processes started, the report tool never is, and the
\* run never succeeds.
C1_FormatErrorAfterTestRun ==
    /\ (task = "coverage" /\ fmt \notin SupportedFormats) =>
        /\ \A i \in 1..Len(calls) : ~IsGrcov(calls[i])
        /\ result # "Ok"
        /\ (pc = "done" /\ Len(calls) = 2 /\ calls[2].exit = "zero") => result = "InvalidFormat"
    /\ (task = "coverage" /\ result = "InvalidFormat") =>
        /\ fmt \notin SupportedFormats
        /\ Len(calls) = 2
        /\ IsMetadata(calls[1]) /\ calls[1].exit = "zero"
        /\ IsTest(calls[2]) /\ calls[2].exit = "zero"

C1_Witness ==
    task = "coverage" /\ fmt = "xml" /\ result = "InvalidFormat"

\* C2 as stated: whatever the format, a coverage run that returns success has
\* run the profraw cleanup step after the instrumented test step.
C2_CleanupOnEverySuccess ==
    (task = "coverage" /\ result = "Ok") => Before("cargo test", "clean_files")

\* C2 as amended: for a report format (html, lcov, cobertura, covdir) a
\* coverage run that returns success has run the profraw cleanup as its last
\* step, after the instrumented test step and the report tool, and no raw
\* profile is left below the working directory; with format profraw the run
\* returns success right after the instrumented test step, without cleanup.
C2_CleanupOnReportSuccess ==
    (task = "coverage" /\ result = "Ok") =>
        IF fmt = "profraw"
        THEN ~Ran("clean_files") /\ Last(steps) = "cargo test"
        ELSE /\ fmt \in SupportedFormats
             /\ Last(steps) = "clean_files"
             /\ Before("cargo test", "clean_files")
             /\ Before("grcov", "clean_files")
             /\ \A q \in Paths :
                    (q # cwd /\ IsPrefix(cwd, q) /\ EndsWith(FileName(q), ".profraw"))
                        => fs[q] = "absent"

C2_Witness ==
    /\ task = "coverage" /\ fmt = "lcov" /\ result = "Ok"
    /\ pre_fs[join(PKG, "stray.profraw")] = "file"
    /\ fs[join(PKG, "stray.profraw")] = "absent"

\* C3: in a coverage run with format profraw the report tool is never
\* started, and the instrumented test step is executed (unless a step before
\* it failed); the outcome of the test step is the outcome of the run.
C3_ProfrawRunsTestNotReport ==
    (task = "coverage" /\ fmt = "profraw") =>
        /\ \A i \in 1..Len(calls) : ~IsGrcov(calls[i])
        /\ ~Ran("grcov")
        /\ pc = "done" =>
            \/ /\ Last(steps) = "cargo test"
               /\ IsTest(Last(calls))
               /\ result = (IF Last(calls).exit = "zero" THEN "Ok" ELSE "CommandFailed")
            \/ /\ Last(steps) \in SetupSteps
               /\ result # "Ok"

C3_Witness ==
    /\ task = "coverage" /\ fmt = "profraw" /\ pc = "done"
    /\ Len(calls) = 2
    /\ IsTest(Last(calls)) /\ Last(calls).exit = "nonzero"

\* C4 as stated: whenever the instrumented test phase is started, the coverage
\* directory exists and is empty.
C4_CoverageDirEmptyAtTestStart ==
    (task = "coverage" /\ pc = "test") => IsEmptyDir(fs, coverage_dir)

-----------------------------------------------------------------------------
(* Properties of the pipelines of the builders *)

Has(args, token) == \E i \in 1..Len(args) : args[i] = token

\* What an invocation of the powerset pipeline does, read off its arguments.
PowersetStepKind(c) ==
    IF c.prog # "cargo" \/ c.args[1] # "hack" THEN "other"
    ELSE IF c.args[2] = "clippy" THEN "lint"
    ELSE IF Last(c.args) = "--doc" THEN "doc-test"
    ELSE IF Last(c.args) = "test" THEN "unit-test"
    ELSE "other"

\* What an invocation of the CI pipeline does, read off its arguments.
CIStepKind(c) ==
    IF c.prog # "cargo" THEN "other"
    ELSE IF Has(c.args, "fmt") THEN "format-check"
    ELSE IF c.args[1] = "clippy" THEN "lint"
    ELSE IF c.args = <<"test">> THEN "unit-test"
    ELSE IF c.args = <<"test", "--doc">> THEN "doc-test"
    ELSE "other"

\* Fail-fast over a pipeline of the given kinds: the invocations started are a
\* prefix of the pipeline, in order; all but the last have exited zero; a run
\* that returned has failed exactly when its last invocation exited non-zero,
\* and has succeeded only after all of them exited zero.
FailFast(kinds, kind_of(_)) ==
    /\ Len(calls) \in 1..Len(kinds)
    /\ \A k \in 1..Len(calls) : kind_of(calls[k]) = kinds[k]
    /\ \A k \in 1..(Len(calls) - 1) : calls[k].exit = "zero"
    /\ pc = "done" <=> Last(calls).exit # "running"
    /\ pc = "done" =>
        /\ result = (IF Last(calls).exit = "zero" THEN "Ok" ELSE "CommandFailed")
        /\ Last(calls).exit = "zero" => Len(calls) = Len(kinds)
    /\ pc # "done" => result = "none"

\* C5: the powerset pipeline runs lint, unit tests, doc tests in that order
\* and is fail-fast: a step is started only when all earlier steps exited
\* zero, and a step that exits non-zero is the last one started, its failure
\* the result of run().
C5_PowersetFailFast ==
    task = "powerset" => FailFast(<<"lint", "unit-test", "doc-test">>, PowersetStepKind)

C5_Witness ==
    /\ task = "powerset" /\ pc = "done" /\ result = "CommandFailed"
    /\ Len(calls) = 2 /\ calls[1].exit = "zero" /\ calls[2].exit = "nonzero"

\* C6: the CI task runs format-check, lint, unit-test, doc-test in that order,
\* each at most once, an invocation only after all earlier ones exited zero;
\* run() succeeds only if all four ran and exited zero.
C6_CIFailFast ==
    task = "ci" =>
        FailFast(<<"format-check", "lint", "unit-test", "doc-test">>, CIStepKind)

C6_Witness ==
    /\ task = "ci" /\ pc = "done" /\ result = "CommandFailed"
    /\ Len(calls) = 1 /\ calls[1].exit = "nonzero"

IsDecimalToken(str) ==
    LET neg == Len(str) > 0 /\ CharAt(str, 1) = "-"
        digits == IF neg THEN SubSeq(str, 2, Len(str)) ELSE str
    IN /\ Len(digits) >= 1
       /\ \A i \in 1..Len(digits) : IsDigitChar(CharAt(digits, i))
       /\ Len(digits) > 1 => CharAt(digits, 1) # "0"

ParseDecimal(str) ==
    IF CharAt(str, 1) = "-"
    THEN 0 - ParseDigits(SubSeq(str, 2, Len(str)), Len(str) - 1)
    ELSE ParseDigits(str, Len(str))

\* C8: each of the three powerset invocations has the depth flag exactly once,
\* immediately followed by the decimal token of the configured depth (2 when
\* none is configured); the no-default-features exclusion flag is in all of
\* them when configured and in none otherwise.
C8_PowersetDepthToken ==
    task = "powerset" =>
        LET d == IF builder.depth = Unset THEN 2 ELSE builder.depth[1]
            excl == builder.exclude_no_default_features = <<TRUE>>
        IN \A k \in 1..Len(calls) :
            LET args == calls[k].args IN
            /\ Cardinality({i \in 1..Len(args) : args[i] = "--depth"}) = 1
            /\ \A i \in 1..Len(args) : args[i] = "--depth" =>
                /\ i < Len(args)
                /\ IsDecimalToken(args[i + 1])
                /\ ParseDecimal(args[i + 1]) = d
                /\ d = 3 => args[i + 1] = "3"
            /\ Has(args, "--exclude-no-default-features") <=> excl

C8_Witness ==
    /\ task = "powerset" /\ Len(calls) = 3
    /\ builder.depth = <<3>>
    /\ builder.exclude_no_default_features = <<TRUE>>
    /\ \A k \in 1..3 : Has(calls[k].args, "3") /\ Has(calls[k].args, "--exclude-no-default-features")

-----------------------------------------------------------------------------
(* Properties of get_clean_directory *)

Below(p) == {q \in Paths : q # p /\ IsPrefix(p, q)}

\* C9: a successful get_clean_directory(p) leaves a p that did not exist
\* existing and empty, and removes everything a directory p held before.
C9_CleanDirectory ==
    (task = "get_clean_directory" /\ result = "Ok") =>
        /\ pre_fs[path_arg] = "absent" => IsEmptyDir(fs, path_arg)
        /\ pre_fs[path_arg] = "dir" => \A q \in Below(path_arg) : fs[q] = "absent"
        /\ pre_fs[path_arg] # "file"

C9_Witness ==
    /\ task = "get_clean_directory" /\ result = "Ok"
    /\ pre_fs[path_arg] = "dir"
    /\ Cardinality({q \in Below(path_arg) : pre_fs[q] # "absent"}) = 2

\* C10: get_clean_directory(p) on a regular file p fails with NotADirectory
\* and leaves the whole filesystem as it was.
C10_RegularFileRejected ==
    (task = "get_clean_directory" /\ pre_fs[path_arg] = "file") =>
        /\ result = "NotADirectory"
        /\ fs = pre_fs

C10_Witness ==
    /\ task = "get_clean_directory" /\ pre_fs[path_arg] = "file"
    /\ path_arg = join(PKG, "coverage")
    /\ result = "NotADirectory"


\* C11 as stated: get_clean_directory always ends in the "exists and empty"
\* state and is idempotent: after a successful call p exists and is empty, and
\* a second call in succession leaves the filesystem as the first call left
\* it.
C11_IdempotentExistsAndEmpty ==
    (task = "get_clean_directory" /\ result = "Ok") =>
        /\ IsEmptyDir(fs, path_arg)
        /\ \A io_ok \in BOOLEAN :
            LET again == get_clean_directory(fs, path_arg, io_ok)
            IN again.ok => again.fs = fs

-----------------------------------------------------------------------------
(* Properties of clean_files and nearest_cargo_dir *)

\* The suffix of a pattern **/*<suffix> and the paths it matched when the
\* function was called.
SuffixOf(pat) == SubSeq(pat, Len("**/*") + 1, Len(pat))

Matched ==
    {q \in Paths : /\ q # cwd /\ IsPrefix(cwd, q)
                   /\ pre_fs[q] # "absent"
                   /\ EndsWith(FileName(q), SuffixOf(pattern))}

ListingErrors == {"PatternError", "GlobError"}

\* C12: when the pattern was expanded (it is valid and the listing did not
\* fail), clean_files over zero matches succeeds and changes nothing; when it
\* succeeds, exactly the matches are deleted and every other path is as it
\* was.
C12_DeletesExactlyMatches ==
    (task = "clean_files" /\ result \notin ListingErrors) =>
        /\ Matched = {} => (result = "Ok" /\ fs = pre_fs)
        /\ result = "Ok" =>
            \A q \in Paths : fs[q] = (IF q \in Matched THEN "absent" ELSE pre_fs[q])

C12_Witness ==
    /\ task = "clean_files" /\ result = "Ok"
    /\ Cardinality(Matched) = 3
    /\ \E q \in Paths \ {Root} :
         FileName(q) = ReportName /\ pre_fs[q] = "file" /\ fs[q] = "file"

C18_FailFirstNoRollback ==
    task = "clean_files" =>
        LET order == SortedPaths(Matched) IN
        /\ HasChar(pattern, "[") => result = "PatternError"
        /\ result \in ListingErrors => fs = pre_fs
        /\ (result \notin ListingErrors /\ \E q \in Matched : pre_fs[q] = "dir") => result = "Io"
        /\ result \notin (ListingErrors \cup {"Ok"}) =>
            \E i \in 1..Len(order) :
                /\ \A j \in 1..(i - 1) : fs[order[j]] = "absent"
                /\ \A j \in i..Len(order) : fs[order[j]] = pre_fs[order[j]]
                /\ \A q \in Paths \ Matched : fs[q] = pre_fs[q]

C18_Witness ==
    /\ task = "clean_files" /\ result = "Io"
    /\ LET order == SortedPaths(Matched) IN
        /\ Len(order) = 3
        /\ fs[order[1]] = "absent" /\ pre_fs[order[1]] = "file"
        /\ fs[order[2]] = "file"
        /\ fs[order[3]] = "file"

-----------------------------------------------------------------------------
(* Further properties of coverage *)

FailedAt(i) == calls[i].exit = "nonzero" /\ (IsTest(calls[i]) \/ IsGrcov(calls[i]))

StrayProfraw == join(PKG, "stray.profraw")

\* C15: when the instrumented test run or the report tool exits non-zero, the
\* coverage task returns an error at once: the failed process is the last one
\* started and its step the last step executed (after a failed test run the
\* report tool is never started), and the cleanup step is not run, so every
\* raw profile that was there outside the coverage directory is still there.
C15_AbortOnSubprocessFailure ==
    task = "coverage" =>
        \A i \in 1..Len(calls) :
            FailedAt(i) =>
                /\ pc = "done" /\ result = "CommandFailed"
                /\ i = Len(calls)
                /\ Last(steps) = (IF IsTest(calls[i]) THEN "cargo test" ELSE "grcov")
                /\ IsTest(calls[i]) => \A j \in 1..Len(calls) : ~IsGrcov(calls[j])
                /\ ~Ran("clean_files")
                /\ \A q \in Paths \ {Root} :
                     (/\ MatchesProfraw(FileName(q)) /\ pre_fs[q] = "file"
                      /\ ~IsPrefix(coverage_dir, q)) => fs[q] = "file"

C15_Witness ==
    /\ task = "coverage" /\ pc = "done"
    /\ Len(calls) = 3 /\ FailedAt(3) /\ IsGrcov(calls[3])
    /\ cwd = PKG
    /\ fs[StrayProfraw] = "file"
    /\ fs[join(coverage_dir, ProfrawName)] = "file"

\* The steps of a complete coverage run, in the order of the source.
FullRun ==
    <<"nearest_cargo_dir", "get_workspace_root", "get_clean_directory", "cargo test",
      "output_folder", "create_dir_all", "grcov", "clean_files">>

\* C16: a successful coverage run with a report format has executed, in this
\* order: the resolution of the manifest directory and of the workspace root,
\* the cleaning of the coverage directory, the instrumented test run, the
\* report tool, the cleanup; the report tool is started exactly once, and at
\* any moment it has been started only after the test run exited zero and
\* before the cleanup step.
C16_StepOrder ==
    task = "coverage" =>
        /\ (result = "Ok" /\ fmt \in {"html", "lcov", "cobertura", "covdir"}) =>
            /\ steps = FullRun
            /\ Len(calls) = 3
            /\ IsMetadata(calls[1]) /\ IsTest(calls[2]) /\ IsGrcov(calls[3])
            /\ \A i \in 1..3 : calls[i].exit = "zero"
        /\ \A i \in 1..Len(calls) :
            IsGrcov(calls[i]) =>
                /\ i = 3 /\ Len(calls) = 3
                /\ IsTest(calls[2]) /\ calls[2].exit = "zero"
                /\ Before("cargo test", "grcov")
                /\ calls[i].exit = "running" => ~Ran("clean_files")
                /\ Ran("clean_files") => Before("grcov", "clean_files")

C16_Witness ==
    /\ task = "coverage" /\ fmt = "cobertura" /\ result = "Ok"
    /\ steps = FullRun
    /\ fs[join(coverage_dir, ReportName)] = "file"

\* C17: a coverage run returns success only for a format of {profraw, html,
\* lcov, cobertura, covdir}; for any other format the report tool is never
\* started and no output folder is created, and the run that reaches the
\* match on the format (its test run exited zero) returns the
\* unsupported-format error, which no supported format gets.
C17_UnsupportedFormatRejected ==
    task = "coverage" =>
        /\ result = "Ok" => fmt \in SupportedFormats
        /\ fmt \notin SupportedFormats =>
            /\ \A i \in 1..Len(calls) : ~IsGrcov(calls[i])
            /\ ~Ran("grcov") /\ ~Ran("create_dir_all")
            /\ (pc = "done" /\ \E i \in 1..Len(calls) : IsTest(calls[i]) /\ calls[i].exit = "zero")
                => (result = "InvalidFormat" /\ Last(steps) = "output_folder")
        /\ fmt \in SupportedFormats => result # "InvalidFormat"

C17_Witness ==
    /\ task = "coverage" /\ fmt = "HTML" /\ pc = "done"
    /\ result = "InvalidFormat"
    /\ Len(calls) = 2 /\ calls[2].exit = "zero"

\* C19: over any sequence of coverage runs, whenever a run starts its
\* instrumented test run the coverage directory holds nothing that an earlier
\* run (or anything else) left in it: no path below it exists.
C19_NoStaleArtifactAtTestStart ==
    (task = "coverage" /\ pc = "test") =>
        \A q \in Paths : (q # coverage_dir /\ IsPrefix(coverage_dir, q)) => fs[q] = "absent"

C19_Witness ==
    /\ task = "coverage" /\ pc = "test"
    /\ pre_fs[join(coverage_dir, ProfrawName)] = "file"
    /\ pre_fs[join(coverage_dir, ReportName)] = "file"
    /\ fs[join(coverage_dir, ProfrawName)] = "absent"

-----------------------------------------------------------------------------
(* Frame of the flags of CI *)

BaseCheckArgs == <<"fmt", "--all", "--", "--check">>
BaseLintArgs == <<"clippy", "--", "-D", "warnings">>

\* The argument vectors of the invocations started so far, with those at the
\* positions of `hidden` left out of the comparison.
SameArgsExcept(plan, hidden) ==
    \A k \in (1..Len(calls)) \ hidden : plan[k].args = calls[k].args

\* C20: in a CI run the nightly flag only puts the toolchain prefix in front
\* of the otherwise unchanged format-check arguments, and the clippy_max flag
\* only appends the lint opt-ins after the unchanged base lint arguments: the
\* lint, unit-test and doc-test vectors are those of every builder with the
\* same clippy_max, whatever its nightly; the format-check, unit-test and
\* doc-test vectors are those of every builder with the same nightly, whatever
\* its clippy_max.
C20_FlagFrame ==
    task = "ci" =>
        /\ calls[1].args = (IF builder.nightly = <<TRUE>> THEN <<"+nightly">> ELSE <<>>)
                           \o BaseCheckArgs
        /\ Len(calls) >= 2 =>
            /\ SubSeq(calls[2].args, 1, 4) = BaseLintArgs
            /\ builder.clippy_max = <<FALSE>> => calls[2].args = BaseLintArgs
            /\ builder.clippy_max # <<FALSE>> => Len(calls[2].args) > 4
        /\ \A b \in CIBuilders :
            /\ b.clippy_max = builder.clippy_max => SameArgsExcept(CIPlan(CI_build(b)), {1})
            /\ b.nightly = builder.nightly => SameArgsExcept(CIPlan(CI_build(b)), {2})

C20_Witness ==
    /\ task = "ci" /\ Len(calls) = 4
    /\ builder.nightly = <<TRUE>> /\ builder.clippy_max = <<FALSE>>
    /\ calls[1].args = <<"+nightly", "fmt", "--all", "--", "--check">>
    /\ calls[2].args = <<"clippy", "--", "-D", "warnings">>

-----------------------------------------------------------------------------
(* Properties of cobertura_total_coverage *)

\* C13 as stated: a line rate r read from the report is printed as the
\* percentage 100*r with two decimals ("0.8734" as 87.34).
C13_PrintsPercentage ==
    (task = "cobertura_total_coverage" /\ result = "Ok") =>
        LET r == f32_from_str(line_rate).value
            percent == format_i32(r \div 100) \o "." \o Digit((r \div 10) % 10) \o Digit(r % 10)
        IN stdout = <<"Coverage: " \o percent \o "%">>

=============================================================================
